---- MODULE Spec2Model ----
(***************************************************************************)
(* Model of the value-representation layer of the runtime                  *)
(* (src/cruntime/include/runtime/integer.h: integer.h followed by box.h).  *)
(*                                                                         *)
(* A box is one machine word (uintptr_t), modelled as a natural number     *)
(* below 2^INTPTR_BITS.  The word width is a build parameter of the code   *)
(* (INTPTR_BITS); every definition of the code is written in terms of it,  *)
(* and the model keeps that parametrisation and instantiates it with       *)
(* small widths.  The two builds of the overflow primitives are modelled:  *)
(*   USE_BUILTIN_OVF = 1 : smallint_t is intptr_t, SMALLINT_BITS is        *)
(*                         INTPTR_BITS;                                    *)
(*   USE_BUILTIN_OVF = 0 : smallint_t is the half word, SMALLINT_BITS is   *)
(*                         INTPTR_BITS / 2.                                *)
(***************************************************************************)
EXTENDS Integers, Sequences, FiniteSets, TLC

(* ------------------------------------------------------------------ *)
(* Bounds of the model                                                 *)
(* ------------------------------------------------------------------ *)

\* Width of smallint_t in the modelled builds (32 or 64 in the code).
SmallBits == 6

\* BigInt magnitudes tried: SMALLINT_MAX + k and SMALLINT_MIN - k, k in 1..MaxBig.
MaxBig == 2

\* Reference counts tried for an operand's block: owned references plus
\* up to MaxRc - 1 references held elsewhere.
MaxRc == 2

\* The double format of the NaN boxing build, scaled down: one sign bit,
\* ExpBits exponent bits (11 in the source) and MantBits mantissa bits (52).
ExpBits == 3

MantBits == 4

VARIABLES
  INTPTR_BITS,      \* build: width of intptr_t / uintptr_t / box_t
  USE_BUILTIN_OVF,  \* build: integer.h:144-150
  DEBUG,            \* build: whether assert_internal is compiled in
  DEBUG_GE_3,       \* build: whether DEBUG >= 3 (only the NaN boxing code asks)
  KK_CTAIL_NO_CONTEXT_PATH,  \* build: whether that macro is defined (only kk_ctail_apply asks)
  pc,               \* "init", "boxed" (between box_* and unbox_*), "done"
  op,               \* the operation that was applied
  in_x, in_y,       \* the operands (box words, or raw intptr_t values)
  heap,             \* blocks of the reference counted heap, by address
  heap0,            \* the heap as it was before the operation
  box,              \* the box made by the first half of a round trip
  res,              \* what the operation returned
  out,              \* what it stored through its result pointer (*mod)
  calls,            \* calls made into the generic (bignum) routines
  fault             \* "none", or the failure the operation ran into

vars == <<INTPTR_BITS, USE_BUILTIN_OVF, DEBUG, DEBUG_GE_3, KK_CTAIL_NO_CONTEXT_PATH, pc, op, in_x, in_y, heap, heap0, box, res, out, calls, fault>>

(* ------------------------------------------------------------------ *)
(* Machine words and the C operators the code uses on them             *)
(* ------------------------------------------------------------------ *)

WordMod == 2 ^ INTPTR_BITS

Words == 0 .. (WordMod - 1)

INTPTR_MAX == (2 ^ (INTPTR_BITS - 1)) - 1

INTPTR_MIN == - (2 ^ (INTPTR_BITS - 1))

UINTPTR_MAX == WordMod - 1

\* (uintptr_t)i : conversion to unsigned is modulo 2^INTPTR_BITS
to_uintptr(i) == i % WordMod

\* (intptr_t)u : two's complement reinterpretation
to_intptr(u) == IF (u % WordMod) > INTPTR_MAX THEN (u % WordMod) - WordMod ELSE u % WordMod

\* (T)i for a signed type T of `bits` bits
to_signed(bits, i) ==
  LET m == i % (2 ^ bits)
  IN  IF m >= 2 ^ (bits - 1) THEN m - 2 ^ bits ELSE m

RECURSIVE BitAnd(_, _)
BitAnd(a, b) ==
  IF a = 0 \/ b = 0 THEN 0
  ELSE ((a % 2) * (b % 2)) + 2 * BitAnd(a \div 2, b \div 2)

RECURSIVE BitOr(_, _)
BitOr(a, b) ==
  IF a = 0 THEN b
  ELSE IF b = 0 THEN a
  ELSE (IF (a % 2) + (b % 2) > 0 THEN 1 ELSE 0) + 2 * BitOr(a \div 2, b \div 2)

RECURSIVE BitXor(_, _)
BitXor(a, b) ==
  IF a = 0 THEN b
  ELSE IF b = 0 THEN a
  ELSE (((a % 2) + (b % 2)) % 2) + 2 * BitXor(a \div 2, b \div 2)

\* i & m, i | m, i ^ m on intptr_t values (two's complement)
and_intptr(i, m) == to_intptr(BitAnd(to_uintptr(i), to_uintptr(m)))

or_intptr(i, m) == to_intptr(BitOr(to_uintptr(i), to_uintptr(m)))

xor_intptr(i, m) == to_intptr(BitXor(to_uintptr(i), to_uintptr(m)))

\* sar(i, k): arithmetic shift right of an intptr_t (floor division)
sar(i, k) == i \div (2 ^ k)

\* shr(u, k): logical shift right of a uintptr_t
shr(u, k) == to_uintptr(u) \div (2 ^ k)

\* u << k on uintptr_t: bits shifted out are lost
shl(u, k) == (to_uintptr(u) * (2 ^ k)) % WordMod

\* +, - and * on intptr_t are undefined when the exact result v is not an
\* intptr_t
signed_overflow(v) == v < INTPTR_MIN \/ v > INTPTR_MAX

Abs(v) == IF v < 0 THEN - v ELSE v

\* i / j and i % j on intptr_t (j # 0): the quotient truncates toward zero
\* and the remainder has the sign of i
c_div(i, j) == IF (i < 0) = (j < 0) THEN Abs(i) \div Abs(j) ELSE - (Abs(i) \div Abs(j))

c_mod(i, j) == i - j * c_div(i, j)

(* ------------------------------------------------------------------ *)
(* box.h: words as boxes                                               *)
(* ------------------------------------------------------------------ *)

box_from_uintptr(u) == u

box_from_intptr(i) == box_from_uintptr(to_uintptr(i))

box_as_uintptr(b) == b

box_as_intptr(b) == to_intptr(box_as_uintptr(b))

is_ptr_fast(b) == BitAnd(b, 1) = 0

is_value_fast(b) == BitAnd(b, 1) = 1

\* 64-bit build without NaN boxing (USE_BUILTIN_OVF aside, USE_NAN_BOX = 0)
is_ptr(b) == is_ptr_fast(b)

is_value(b) == is_value_fast(b)

box_any == box_from_uintptr(1)

is_box_any(b) == b = box_any

BOXED_VALUE_BITS == INTPTR_BITS - 1

MAX_BOXED_INT == sar(INTPTR_MAX, INTPTR_BITS - BOXED_VALUE_BITS)

MIN_BOXED_INT == (- MAX_BOXED_INT) - 1

MAX_BOXED_UINT == shr(UINTPTR_MAX, INTPTR_BITS - BOXED_VALUE_BITS)

(* ------------------------------------------------------------------ *)
(* The reference counted heap (the external allocator of spec.md 3, 6) *)
(* and the state an operation runs in: the heap, the calls made into   *)
(* the generic routines, and the failure it ran into, if any.          *)
(* ------------------------------------------------------------------ *)

\* "nothing was returned": a number no word, int or bool of the model equals
NoValue == - (2 ^ 30)

\* a C bool: 1 or 0
CBool(b) == IF b THEN 1 ELSE 0

\* Number of block addresses at each end of the address space.
MaxBlocks == 2

\* Block addresses: aligned to 4, never NULL: the lowest ones, the highest
\* ones (negative when read as intptr_t) and the ones just below INTPTR_MAX.
Addrs ==
  {4 * k : k \in 1 .. MaxBlocks} \cup {WordMod - 4 * k : k \in 1 .. MaxBlocks}
    \cup {(WordMod \div 2) - 4 * k : k \in 1 .. MaxBlocks}

FreeBlock == [tag |-> "FREE", rc |-> 0, val |-> 0, free |-> "none"]

EmptyHeap == [a \in Addrs |-> FreeBlock]

Machine(h, c, f) == [heap |-> h, calls |-> c, fault |-> f, ret |-> NoValue, out |-> NoValue]

\* return v (nothing is returned once the operation has failed)
Ret(m, v) ==
  [heap |-> m.heap, calls |-> m.calls, fault |-> m.fault,
   ret |-> IF m.fault = "none" THEN v ELSE NoValue, out |-> m.out]

\* the operation stops here (abort, or the use of a released block)
Abort(m, why) ==
  [heap |-> m.heap, calls |-> m.calls, fault |-> why, ret |-> NoValue, out |-> m.out]

\* *p = v through a result pointer of the caller
Store(m, v) ==
  [heap |-> m.heap, calls |-> m.calls, fault |-> m.fault, ret |-> m.ret,
   out |-> IF m.fault = "none" THEN v ELSE m.out]

Failed(m) == m.fault # "none"

\* the operation runs into undefined behaviour when cond holds: from there
\* on nothing is known about it
undefined_if(m, cond) ==
  IF cond /\ ~Failed(m) THEN Abort(m, "undefined_behaviour") ELSE m

\* assert_internal(cond): compiled in only in a debug build
assert_internal(m, cond) ==
  IF DEBUG /\ ~cond /\ ~Failed(m) THEN Abort(m, "assert_internal") ELSE m

IsLive(m, p) == p \in DOMAIN m.heap /\ m.heap[p].tag # "FREE"

block_tag(m, p) == IF p \in DOMAIN m.heap THEN m.heap[p].tag ELSE "FREE"

\* block_alloc: a fresh block with reference count 1
block_alloc(m, tag, v) ==
  LET free == {a \in DOMAIN m.heap : m.heap[a].tag = "FREE"}
  IN  IF Failed(m) THEN m
      ELSE IF free = {} THEN Abort(m, "out_of_memory")
      ELSE LET a == CHOOSE a \in free : \A b \in free : a <= b
           IN  [heap |-> [m.heap EXCEPT ![a] = [tag |-> tag, rc |-> 1, val |-> v, free |-> "none"]],
                calls |-> m.calls, fault |-> m.fault, ret |-> a, out |-> m.out]

\* dup_block: one more reference
dup_block(m, p) ==
  IF Failed(m) THEN m
  ELSE IF ~IsLive(m, p) THEN Abort(m, "use_after_free")
  ELSE [heap |-> [m.heap EXCEPT ![p].rc = @ + 1],
        calls |-> m.calls, fault |-> m.fault, ret |-> NoValue, out |-> m.out]

\* drop_block: one reference less; the block is released at zero
drop_block(m, p) ==
  IF Failed(m) THEN m
  ELSE IF ~IsLive(m, p) THEN Abort(m, "double_free")
  ELSE [heap |-> [m.heap EXCEPT ![p] = IF @.rc = 1 THEN FreeBlock
                                        ELSE [@ EXCEPT !.rc = @ - 1]],
        calls |-> m.calls, fault |-> m.fault, ret |-> NoValue, out |-> m.out]

\* reading a field of a block
block_value(m, p) ==
  IF Failed(m) THEN m
  ELSE IF ~IsLive(m, p) THEN Abort(m, "use_after_free")
  ELSE Ret(m, m.heap[p].val)

(* ------------------------------------------------------------------ *)
(* box.h: pointers, enums, ints                                        *)
(* ------------------------------------------------------------------ *)

NULL == 0

unbox_ptr(m, v) ==
  LET m1 == assert_internal(m, is_ptr(v) \/ is_box_any(v))
      m2 == assert_internal(m1, v # 0)
  IN  IF Failed(m2) THEN m2 ELSE Ret(m2, v)

box_ptr_unchecked(m, p) == IF Failed(m) THEN m ELSE Ret(m, p)

box_ptr_masking(m, p) == IF Failed(m) THEN m ELSE Ret(m, p - (p % 4))

box_ptr_tagging(m, p) ==
  LET m1 == assert_internal(m, BitAnd(p, 3) = 0)
      m2 == assert_internal(m1, p # NULL)
  IN  IF Failed(m2) THEN m2 ELSE Ret(m2, BitOr(shl(p, 1), 1))

box_ptr(m, p) ==
  LET m1 == assert_internal(m, BitAnd(p, 3) = 0)
      m2 == assert_internal(m1, p # NULL)
  IN  IF Failed(m2) THEN m2 ELSE Ret(m2, p)

unbox_enum_pre(b) == is_value(b) \/ is_box_any(b)

unbox_enum(b) == shr(b, 1)

box_enum_pre(u) == u <= MAX_BOXED_UINT /\ is_value(BitOr(shl(u, 1), 1))

box_enum(u) == BitOr(shl(u, 1), 1)

unbox_int_pre(v) == is_value(v) \/ is_box_any(v)

unbox_int(v) == sar(to_intptr(v), 1)

box_int_pre(i) ==
  i >= MIN_BOXED_INT /\ i <= MAX_BOXED_INT /\ is_value(BitOr(shl(to_uintptr(i), 1), 1))

box_int_shift2(i) == BitOr(shl(to_uintptr(i), 2), 1)

box_int(i) == BitOr(shl(to_uintptr(i), 1), 1)

\* a bool is 0 or 1
unbox_bool(v) == CBool(unbox_enum(v) # 0)

box_bool(b) == box_enum(IF b # 0 THEN 1 ELSE 0)

\* dup_box_t / drop_box_t: only a pointer has a block
dup_box_t(m, b) == IF is_ptr(b) THEN dup_block(m, b) ELSE m

drop_box_t(m, b) == IF is_ptr(b) THEN drop_block(m, b) ELSE m

(* ------------------------------------------------------------------ *)
(* box.h: doubles, 64-bit build without NaN boxing (strategy A).       *)
(* A double is its IEEE bit pattern, as wide as the word.              *)
(* ------------------------------------------------------------------ *)

unbox_double_heap(m, b) ==
  LET m1 == unbox_ptr(m, b)
      m2 == assert_internal(m1, block_tag(m1, b) = "TAG_DOUBLE")
      m3 == block_value(m2, b)
      m4 == drop_block(m3, b)
  IN  IF Failed(m4) THEN m4 ELSE Ret(m4, m3.ret)

box_double_heap(m, d) ==
  LET m1 == block_alloc(m, "TAG_DOUBLE", d)
  IN  IF Failed(m1) THEN m1 ELSE box_ptr(m1, m1.ret)

unbox_double_sar(m, b) ==
  IF is_value(b) THEN Ret(m, to_uintptr(sar(to_intptr(b), 1)))
  ELSE unbox_double_heap(m, b)

unbox_double(m, b) ==
  IF is_value(b) THEN Ret(m, shr(b, 1))
  ELSE unbox_double_heap(m, b)

box_double(m, d) ==
  LET i == to_intptr(d)
  IN  IF i >= 0
      THEN Ret(assert_internal(m, box_enum_pre(to_uintptr(i))), box_enum(to_uintptr(i)))
      ELSE box_double_heap(m, d)

\* C pointers: a raw block holds a free function and the pointer
box_cptr_raw(m, freefun, p) ==
  LET m1 == block_alloc(m, "TAG_CPTR_RAW", p)
      m2 == IF Failed(m1) THEN m1
            ELSE [m1 EXCEPT !.heap = [m1.heap EXCEPT ![m1.ret].free = freefun]]
  IN  IF Failed(m2) THEN m2 ELSE box_ptr(m2, m1.ret)

unbox_cptr_raw(m, b) ==
  LET m1 == unbox_ptr(m, b)
      m2 == assert_internal(m1, block_tag(m1, b) = "TAG_CPTR_RAW")
  IN  block_value(m2, b)

box_cptr_as_int(m, p) ==
  Ret(m, box_int(to_intptr(p)))

box_cptr(m, p) ==
  LET i == to_intptr(p)
  IN  IF i >= MIN_BOXED_INT /\ i <= MAX_BOXED_INT
      THEN Ret(assert_internal(m, box_int_pre(i)), box_int(i))
      ELSE box_cptr_raw(m, "free_fun_null", p)

unbox_cptr(m, b) ==
  IF is_value_fast(b)
  THEN LET m1 == assert_internal(m, is_value(b))
           m2 == assert_internal(m1, unbox_int_pre(b))
       IN  Ret(m2, to_uintptr(unbox_int(b)))
  ELSE unbox_cptr_raw(m, b)

\* C function pointers
box_fun_ptr(m, f) ==
  LET m1 == block_alloc(m, "TAG_CFUNPTR", f)
  IN  IF Failed(m1) THEN m1 ELSE box_ptr(m1, m1.ret)

unbox_fun_ptr(m, b) ==
  LET m1 == unbox_ptr(m, b)
      m2 == assert_internal(m1, block_tag(m1, b) = "TAG_CFUNPTR")
  IN  block_value(m2, b)

(* ------------------------------------------------------------------ *)
(* box.h: 64 bit, NaN boxing (INTPTR_SIZE == 8 and USE_NAN_BOX)        *)
(* ------------------------------------------------------------------ *)

\* the word of the NaN boxing build holds one double
NanBoxBits == 1 + ExpBits + MantBits

\* int32_t is half a word in that build
INT32_BITS == INTPTR_BITS \div 2

\* 0x7FF, the exponent of NaN and infinity
EXP_MASK == (2 ^ ExpBits) - 1

\* U64(1) << 52, the lowest exponent bit
EXP_ONE == 2 ^ MantBits

\* isfinite(d), isnan(d) and d == e on the bits of doubles
isfinite(d) == BitAnd(shr(d, MantBits), EXP_MASK) # EXP_MASK

isnan(d) == ~isfinite(d) /\ (d % EXP_ONE) # 0

double_eq(d, e) ==
  /\ ~isnan(d)
  /\ ~isnan(e)
  /\ d = e \/ (d % (2 ^ (INTPTR_BITS - 1)) = 0 /\ e % (2 ^ (INTPTR_BITS - 1)) = 0)

\* the top sign and exponent bits are neither all 0 nor all 1
is_double_normal(b) ==
  LET i == sar(box_as_intptr(b), MantBits - (INT32_BITS - 1))
  IN  i # to_signed(INT32_BITS, i)

is_ptr_nan_box(b) == is_ptr_fast(b) /\ ~is_double_normal(b)

is_value_nan_box(b) == is_value_fast(b) /\ ~is_double_normal(b)

is_double_special(b) == is_value_fast(b) /\ ~is_double_normal(b)

is_double(b) == is_double_normal(b) \/ is_value_fast(b)

unbox_double_nan_box(m, v) ==
  LET m1 == assert_internal(m, is_double(v) \/ is_box_any(v))
      u == box_as_uintptr(v)
  IN  IF is_double_normal(v)
      THEN LET d == IF to_intptr(u) >= 0 THEN to_uintptr(u - EXP_ONE) ELSE u
           IN  Ret(assert_internal(m1, isfinite(d)), d)
      ELSE LET m2 == assert_internal(m1, is_double_special(v) \/ is_box_any(v))
               u1 == BitOr(BitXor(u, 1), BitAnd(shr(u, 1), 1))
               d == BitOr(u1, shl(EXP_MASK, MantBits))
           IN  Ret(assert_internal(m2, ~isfinite(d)), d)

\* the argument of an assert_internal is evaluated only when it is compiled in
box_double_nan_box(m, d) ==
  LET exp == BitAnd(shr(d, MantBits), EXP_MASK)
  IN  IF exp # EXP_MASK
      THEN LET v == IF to_intptr(d) >= 0 THEN to_uintptr(d + EXP_ONE) ELSE d
               m1 == assert_internal(m, is_double_normal(v))
               m2 == IF DEBUG
                     THEN LET r == unbox_double_nan_box(m1, v)
                          IN  assert_internal(r, double_eq(r.ret, d))
                     ELSE m1
               m3 == assert_internal(m2, is_double(v))
           IN  Ret(m3, box_from_uintptr(v))
      ELSE LET u == IF to_intptr(d) >= 0 THEN shr(shl(d, ExpBits + 1), ExpBits + 1) ELSE d
               v == BitOr(BitOr(u, 1), shl(BitAnd(u, 1), 1))
               m1 == assert_internal(m, ~is_double_normal(v) /\ is_double_special(v))
               m2 == IF DEBUG_GE_3
                     THEN LET r == unbox_double_nan_box(m1, v)
                          IN  assert_internal(r, u = r.ret)
                     ELSE m1
               m3 == assert_internal(m2, is_double(v))
           IN  Ret(m3, box_from_uintptr(v))

(* ------------------------------------------------------------------ *)
(* integer.h: small integers                                           *)
(* ------------------------------------------------------------------ *)

SMALLINT_BITS == IF USE_BUILTIN_OVF THEN INTPTR_BITS ELSE INTPTR_BITS \div 2

SMALLINT_MAX == to_intptr(shr(shr(to_uintptr(INTPTR_MAX), INTPTR_BITS - SMALLINT_BITS), 2))

SMALLINT_MIN == (- SMALLINT_MAX) - 1

smallint_from_integer_pre(i) == is_value(i) /\ BitAnd(i, 3) = 1

smallint_from_integer(i) == sar(unbox_int(i), 1)

integer_from_small_pre(i) ==
  i >= SMALLINT_MIN /\ i <= SMALLINT_MAX /\ box_int_pre(to_intptr(shl(to_uintptr(i), 1)))

integer_from_small_bit1(i) == BitOr(box_int(to_intptr(shl(to_uintptr(i), 1))), 2)

integer_from_small(i) == box_int(to_intptr(shl(to_uintptr(i), 1)))

is_integer(m, i) ==
  \/ /\ is_value(i)
     /\ smallint_from_integer_pre(i)
     /\ smallint_from_integer(i) >= SMALLINT_MIN
     /\ smallint_from_integer(i) <= SMALLINT_MAX
  \/ /\ is_ptr(i)
     /\ i # 0
     /\ block_tag(m, i) = "TAG_BIGINT"

is_bigint(i) == is_ptr_fast(i)

is_smallint(i) == is_value_fast(i)

are_smallints_or(i, j) == BitAnd(BitOr(i, j), 1) # 0

are_smallints(i, j) == BitAnd(BitAnd(i, j), 1) # 0

integer_zero == integer_from_small(0)

integer_one == integer_from_small(1)

integer_min_one == integer_from_small(-1)

(* ------------------------------------------------------------------ *)
(* integer.h: overflow detection on smallint_t, `bits` bits wide       *)
(* ------------------------------------------------------------------ *)

\* __builtin_*_overflow on smallint_t: the exact result v, wrapped into
\* smallint_t, and whether it did not fit
builtin_ovf(bits, v) ==
  [ovf |-> v < - (2 ^ (bits - 1)) \/ v > (2 ^ (bits - 1)) - 1,
   r   |-> to_signed(bits, v)]

builtin_add_ovf(bits, h, y) == builtin_ovf(bits, to_signed(bits, h) + to_signed(bits, y))

builtin_sub_ovf(bits, h, y) == builtin_ovf(bits, to_signed(bits, h) - to_signed(bits, y))

builtin_mul_ovf(bits, h, y) == builtin_ovf(bits, to_signed(bits, h) * to_signed(bits, y))

portable_ovf_off_by_one(bits, z) ==
  [ovf |-> to_uintptr(to_uintptr(sar(z, bits)) + 1) > 1,
   r   |-> z]

\* the portable test on the full word result z:
\*   s = (uintptr_t)sar(z, SMALLINT_BITS - 1);  return (s + 1 > 1)
portable_ovf(bits, z) ==
  [ovf |-> to_uintptr(to_uintptr(sar(z, bits - 1)) + 1) > 1,
   r   |-> z]

portable_add_ovf(bits, a, b) == portable_ovf(bits, to_intptr(a + b))

portable_sub_ovf(bits, a, b) == portable_ovf(bits, to_intptr(a - b))

portable_mul_ovf(bits, a, b) == portable_ovf(bits, to_intptr(a * b))

smallint_add_ovf_never(a, b) == [ovf |-> FALSE, r |-> to_intptr(a + b)]

smallint_add_ovf(a, b) ==
  IF USE_BUILTIN_OVF THEN builtin_add_ovf(SMALLINT_BITS, a, b)
  ELSE portable_add_ovf(SMALLINT_BITS, a, b)

smallint_sub_ovf(a, b) ==
  IF USE_BUILTIN_OVF THEN builtin_sub_ovf(SMALLINT_BITS, a, b)
  ELSE portable_sub_ovf(SMALLINT_BITS, a, b)

smallint_mul_ovf(a, b) ==
  IF USE_BUILTIN_OVF THEN builtin_mul_ovf(SMALLINT_BITS, a, b)
  ELSE portable_mul_ovf(SMALLINT_BITS, a, b)

\* the full-word operation of the portable primitive overflows intptr_t
smallint_add_ub(a, b) == ~USE_BUILTIN_OVF /\ signed_overflow(a + b)

smallint_sub_ub(a, b) == ~USE_BUILTIN_OVF /\ signed_overflow(a - b)

smallint_mul_ub(a, b) == ~USE_BUILTIN_OVF /\ signed_overflow(a * b)

(* ------------------------------------------------------------------ *)
(* The generic (bignum) routines: declared in integer.h, implemented   *)
(* outside it.  Their contract (spec.md 3, 4.2, 6): each consumes one  *)
(* reference to every argument and returns the exact result in         *)
(* canonical form, a SmallInt whenever the value fits.                 *)
(* ------------------------------------------------------------------ *)

\* Largest magnitude tried for the int that integer_cmp_generic returns.
MaxCmp == 2

Call(m, f, args) ==
  IF Failed(m) THEN m
  ELSE [heap |-> m.heap, calls |-> Append(m.calls, [f |-> f, args |-> args]),
        fault |-> m.fault, ret |-> NoValue, out |-> m.out]

\* the number an Integer stands for
integer_value(m, i) ==
  IF Failed(m) THEN m
  ELSE IF is_smallint(i) THEN Ret(m, smallint_from_integer(i))
  ELSE block_value(m, i)

\* the canonical Integer for the number v
integer_from_value(m, v) ==
  IF Failed(m) THEN m
  ELSE IF v >= SMALLINT_MIN /\ v <= SMALLINT_MAX THEN Ret(m, integer_from_small(v))
  ELSE LET m1 == block_alloc(m, "TAG_BIGINT", v)
       IN  IF Failed(m1) THEN m1 ELSE box_ptr(m1, m1.ret)

Sign(v) == IF v < 0 THEN -1 ELSE IF v > 0 THEN 1 ELSE 0

integer_from_big(m, i) == integer_from_value(Call(m, "integer_from_big", <<i>>), i)

integer_add_generic(m, x, y) ==
  LET m0 == Call(m, "integer_add_generic", <<x, y>>)
      vx == integer_value(m0, x)
      vy == integer_value(vx, y)
      m1 == drop_box_t(drop_box_t(vy, x), y)
  IN  IF Failed(m1) THEN m1 ELSE integer_from_value(m1, vx.ret + vy.ret)

integer_sub_generic(m, x, y) ==
  LET m0 == Call(m, "integer_sub_generic", <<x, y>>)
      vx == integer_value(m0, x)
      vy == integer_value(vx, y)
      m1 == drop_box_t(drop_box_t(vy, x), y)
  IN  IF Failed(m1) THEN m1 ELSE integer_from_value(m1, vx.ret - vy.ret)

integer_neg_generic(m, x) ==
  LET m0 == Call(m, "integer_neg_generic", <<x>>)
      vx == integer_value(m0, x)
      m1 == drop_box_t(vx, x)
  IN  IF Failed(m1) THEN m1 ELSE integer_from_value(m1, - vx.ret)

\* returns a negative, zero or positive int: mag is the magnitude it uses
integer_cmp_generic(m, x, y, mag) ==
  LET m0 == Call(m, "integer_cmp_generic", <<x, y>>)
      vx == integer_value(m0, x)
      vy == integer_value(vx, y)
      m1 == drop_box_t(drop_box_t(vy, x), y)
  IN  IF Failed(m1) THEN m1 ELSE Ret(m1, mag * Sign(vx.ret - vy.ret))

integer_signum_generic(m, x) ==
  LET m0 == Call(m, "integer_signum_generic", <<x>>)
      vx == integer_value(m0, x)
      m1 == drop_box_t(vx, x)
  IN  IF Failed(m1) THEN m1 ELSE Ret(m1, Sign(vx.ret))

integer_mul_generic(m, x, y) ==
  LET m0 == Call(m, "integer_mul_generic", <<x, y>>)
      vx == integer_value(m0, x)
      vy == integer_value(vx, y)
      m1 == drop_box_t(drop_box_t(vy, x), y)
  IN  IF Failed(m1) THEN m1 ELSE integer_from_value(m1, vx.ret * vy.ret)

integer_sqr_generic(m, x) ==
  LET m0 == Call(m, "integer_sqr_generic", <<x>>)
      vx == integer_value(m0, x)
      m1 == drop_box_t(vx, x)
  IN  IF Failed(m1) THEN m1 ELSE integer_from_value(m1, vx.ret * vx.ret)

\* the truncating quotient and remainder; total: x / 0 is 0 and x % 0 is x
generic_quotient(vx, vy) == IF vy = 0 THEN 0 ELSE c_div(vx, vy)

generic_remainder(vx, vy) == IF vy = 0 THEN vx ELSE c_mod(vx, vy)

integer_div_generic(m, x, y) ==
  LET m0 == Call(m, "integer_div_generic", <<x, y>>)
      vx == integer_value(m0, x)
      vy == integer_value(vx, y)
      m1 == drop_box_t(drop_box_t(vy, x), y)
  IN  IF Failed(m1) THEN m1 ELSE integer_from_value(m1, generic_quotient(vx.ret, vy.ret))

integer_mod_generic(m, x, y) ==
  LET m0 == Call(m, "integer_mod_generic", <<x, y>>)
      vx == integer_value(m0, x)
      vy == integer_value(vx, y)
      m1 == drop_box_t(drop_box_t(vy, x), y)
  IN  IF Failed(m1) THEN m1 ELSE integer_from_value(m1, generic_remainder(vx.ret, vy.ret))

\* the remainder is stored through mod, the quotient is returned
integer_div_mod_generic(m, x, y) ==
  LET m0 == Call(m, "integer_div_mod_generic", <<x, y>>)
      vx == integer_value(m0, x)
      vy == integer_value(vx, y)
      m1 == drop_box_t(drop_box_t(vy, x), y)
      r  == integer_from_value(m1, generic_remainder(vx.ret, vy.ret))
  IN  IF Failed(m1) THEN m1
      ELSE IF Failed(r) THEN r
      ELSE integer_from_value(Store(r, r.ret), generic_quotient(vx.ret, vy.ret))

(* ------------------------------------------------------------------ *)
(* integer.h: the inlined operations                                   *)
(* ------------------------------------------------------------------ *)

\* assert_internal(is_smallint(z)): is_smallint itself asserts is_integer(z)
assert_is_smallint(m, z) == assert_internal(m, is_integer(m, z) /\ is_smallint(z))

integer_from_int_off_by_one(m, i) ==
  IF i >= SMALLINT_MIN /\ i <= SMALLINT_MAX + 1
  THEN Ret(m, integer_from_small(i))
  ELSE integer_from_big(m, i)

integer_from_int(m, i) ==
  IF i >= SMALLINT_MIN /\ i <= SMALLINT_MAX
  THEN Ret(assert_internal(m, integer_from_small_pre(i)), integer_from_small(i))
  ELSE integer_from_big(m, i)

integer_add_small(m, x, y) ==
  LET a  == box_as_intptr(x)
      b  == xor_intptr(box_as_intptr(y), 1)
      m0 == undefined_if(assert_internal(m, are_smallints(x, y)), smallint_add_ub(a, b))
      o  == smallint_add_ovf(a, b)
  IN  IF ~o.ovf
      THEN Ret(assert_is_smallint(m0, box_from_intptr(o.r)), box_from_intptr(o.r))
      ELSE integer_add_generic(m0, x, y)

integer_add(m, x, y) ==
  LET m0 == undefined_if(assert_internal(m, is_integer(m, x) /\ is_integer(m, y)),
                         smallint_add_ub(box_as_intptr(x), box_as_intptr(y)))
      o  == smallint_add_ovf(box_as_intptr(x), box_as_intptr(y))
      z  == box_from_intptr(xor_intptr(o.r, 3))
  IN  IF ~o.ovf /\ and_intptr(o.r, 2) # 0
      THEN Ret(assert_is_smallint(m0, z), z)
      ELSE integer_add_generic(m0, x, y)

integer_sub_small_no_untag(m, x, y) ==
  LET a  == box_as_intptr(x)
      b  == box_as_intptr(y)
      m0 == undefined_if(assert_internal(m, are_smallints(x, y)), smallint_sub_ub(a, b))
      o  == smallint_sub_ovf(a, b)
  IN  IF ~o.ovf
      THEN Ret(assert_is_smallint(m0, box_from_intptr(o.r)), box_from_intptr(o.r))
      ELSE integer_sub_generic(m0, x, y)

integer_sub_small(m, x, y) ==
  LET a  == box_as_intptr(x)
      b  == xor_intptr(box_as_intptr(y), 1)
      m0 == undefined_if(assert_internal(m, are_smallints(x, y)), smallint_sub_ub(a, b))
      o  == smallint_sub_ovf(a, b)
  IN  IF ~o.ovf
      THEN Ret(assert_is_smallint(m0, box_from_intptr(o.r)), box_from_intptr(o.r))
      ELSE integer_sub_generic(m0, x, y)

integer_neg_small(m, x) ==
  integer_sub_small(assert_internal(m, is_smallint(x)), integer_zero, x)

integer_abs(m, x) ==
  IF is_smallint(x)
  THEN IF box_as_intptr(x) < box_as_intptr(integer_zero)
       THEN integer_neg_small(m, x)
       ELSE Ret(m, x)
  ELSE LET s == integer_signum_generic(m, x)
       IN  IF Failed(s) THEN s
           ELSE IF s.ret < 0 THEN integer_neg_generic(s, x)
           ELSE Ret(s, x)

integer_cmp(m, x, y, mag) ==
  IF are_smallints(x, y)
  THEN Ret(m, IF box_as_intptr(x) = box_as_intptr(y) THEN 0
              ELSE IF box_as_intptr(x) > box_as_intptr(y) THEN 1 ELSE -1)
  ELSE integer_cmp_generic(m, x, y, mag)

integer_lt(m, x, y, mag) ==
  IF are_smallints(x, y) THEN Ret(m, CBool(box_as_intptr(x) < box_as_intptr(y)))
  ELSE LET c == integer_cmp(m, x, y, mag) IN Ret(c, CBool(c.ret = -1))

integer_lte_strict(m, x, y, mag) ==
  IF are_smallints(x, y) THEN Ret(m, CBool(box_as_intptr(x) < box_as_intptr(y)))
  ELSE LET c == integer_cmp(m, x, y, mag) IN Ret(c, CBool(c.ret <= 0))

integer_lte(m, x, y, mag) ==
  IF are_smallints(x, y) THEN Ret(m, CBool(box_as_intptr(x) <= box_as_intptr(y)))
  ELSE LET c == integer_cmp(m, x, y, mag) IN Ret(c, CBool(c.ret <= 0))

integer_gt(m, x, y, mag) ==
  IF are_smallints(x, y) THEN Ret(m, CBool(box_as_intptr(x) > box_as_intptr(y)))
  ELSE LET c == integer_cmp(m, x, y, mag) IN Ret(c, CBool(c.ret = 1))

integer_gte(m, x, y, mag) ==
  IF are_smallints(x, y) THEN Ret(m, CBool(box_as_intptr(x) >= box_as_intptr(y)))
  ELSE LET c == integer_cmp(m, x, y, mag) IN Ret(c, CBool(c.ret >= 0))

integer_eq(m, x, y, mag) ==
  IF are_smallints(x, y) THEN Ret(m, CBool(box_as_intptr(x) = box_as_intptr(y)))
  ELSE LET c == integer_cmp(m, x, y, mag) IN Ret(c, CBool(c.ret = 0))

integer_neq(m, x, y, mag) ==
  IF are_smallints(x, y) THEN Ret(m, CBool(box_as_intptr(x) # box_as_intptr(y)))
  ELSE LET c == integer_cmp(m, x, y, mag) IN Ret(c, CBool(c.ret # 0))

integer_is_zero_no_drop(m, x) ==
  Ret(assert_internal(m, is_integer(m, x)),
      CBool(is_smallint(x) /\ box_as_intptr(x) = box_as_intptr(integer_zero)))

integer_is_zero(m, x) ==
  LET m0 == assert_internal(m, is_integer(m, x))
  IN  IF is_smallint(x)
      THEN Ret(m0, CBool(box_as_intptr(x) = box_as_intptr(integer_zero)))
      ELSE Ret(drop_box_t(m0, x), CBool(FALSE))

integer_is_one(m, x) ==
  LET m0 == assert_internal(m, is_integer(m, x))
  IN  IF is_smallint(x)
      THEN Ret(m0, CBool(box_as_intptr(x) = box_as_intptr(integer_one)))
      ELSE Ret(drop_box_t(m0, x), CBool(FALSE))

integer_is_minus_one(m, x) ==
  LET m0 == assert_internal(m, is_integer(m, x))
  IN  IF is_smallint(x)
      THEN Ret(m0, CBool(box_as_intptr(x) = box_as_intptr(integer_min_one)))
      ELSE Ret(drop_box_t(m0, x), CBool(FALSE))

integer_max_no_dup(m, x, y, mag) ==
  IF are_smallints(x, y)
  THEN Ret(m, IF box_as_intptr(x) >= box_as_intptr(y) THEN x ELSE y)
  ELSE LET c == integer_gte(m, x, y, mag)
       IN  IF Failed(c) THEN c
           ELSE IF c.ret # 0 THEN Ret(drop_box_t(c, y), x)
           ELSE Ret(drop_box_t(c, x), y)

integer_max(m, x, y, mag) ==
  IF are_smallints(x, y)
  THEN Ret(m, IF box_as_intptr(x) >= box_as_intptr(y) THEN x ELSE y)
  ELSE LET d == dup_box_t(dup_box_t(m, x), y)
           c == integer_gte(d, x, y, mag)
       IN  IF Failed(c) THEN c
           ELSE IF c.ret # 0 THEN Ret(drop_box_t(c, y), x)
           ELSE Ret(drop_box_t(c, x), y)

integer_min(m, x, y, mag) ==
  IF are_smallints(x, y)
  THEN Ret(m, IF box_as_intptr(x) <= box_as_intptr(y) THEN x ELSE y)
  ELSE LET d == dup_box_t(dup_box_t(m, x), y)
           c == integer_lte(d, x, y, mag)
       IN  IF Failed(c) THEN c
           ELSE IF c.ret # 0 THEN Ret(drop_box_t(c, y), x)
           ELSE Ret(drop_box_t(c, x), y)

integer_sub(m, x, y) ==
  IF are_smallints(x, y) THEN integer_sub_small(m, x, y)
  ELSE integer_sub_generic(m, x, y)

integer_neg(m, x) ==
  IF is_smallint(x) THEN integer_neg_small(m, x)
  ELSE integer_neg_generic(m, x)

integer_mul_small_no_tag(m, x, y) ==
  LET i  == sar(box_as_intptr(x), 1)
      j  == sar(box_as_intptr(y), 1)
      m0 == undefined_if(assert_internal(m, are_smallints(x, y)), smallint_mul_ub(i, j))
      o  == smallint_mul_ovf(i, j)
      z  == box_from_intptr(o.r)
  IN  IF ~o.ovf
      THEN Ret(assert_is_smallint(m0, z), z)
      ELSE integer_mul_generic(m0, x, y)

integer_mul_small(m, x, y) ==
  LET i  == sar(box_as_intptr(x), 1)
      j  == sar(box_as_intptr(y), 1)
      m0 == undefined_if(assert_internal(m, are_smallints(x, y)), smallint_mul_ub(i, j))
      o  == smallint_mul_ovf(i, j)
      z  == box_from_intptr(or_intptr(o.r, 1))
  IN  IF ~o.ovf
      THEN Ret(assert_is_smallint(m0, z), z)
      ELSE integer_mul_generic(m0, x, y)

integer_mul(m, x, y) ==
  IF are_smallints(x, y) THEN integer_mul_small(m, x, y)
  ELSE integer_mul_generic(m, x, y)

integer_sqr(m, x) ==
  IF is_smallint(x) THEN integer_mul_small(m, x, x)
  ELSE integer_sqr_generic(m, x)

\* i / j is undefined for j = 0; the quotient is re-tagged with shr(.., 2) | 1
integer_div_small(m, x, y) ==
  LET i  == sar(box_as_intptr(x), 1)
      j  == sar(box_as_intptr(y), 1)
      m0 == undefined_if(assert_internal(m, are_smallints(x, y)), j = 0)
  IN  IF Failed(m0) THEN m0
      ELSE Ret(m0, box_from_uintptr(BitOr(shr(c_div(i, j), 2), 1)))

\* i % j is undefined for j = 0; the remainder is re-tagged with shr(.., 1) | 1
integer_mod_small(m, x, y) ==
  LET i  == sar(box_as_intptr(x), 1)
      j  == sar(box_as_intptr(y), 1)
      m0 == undefined_if(assert_internal(m, are_smallints(x, y)), j = 0)
  IN  IF Failed(m0) THEN m0
      ELSE Ret(m0, box_from_uintptr(BitOr(shr(c_mod(i, j), 1), 1)))

\* the caller's mod is never NULL
integer_div_mod_small(m, x, y) ==
  LET i  == sar(box_as_intptr(x), 1)
      j  == sar(box_as_intptr(y), 1)
      m0 == undefined_if(assert_internal(m, are_smallints(x, y)), j = 0)
  IN  IF Failed(m0) THEN m0
      ELSE Ret(Store(m0, box_from_intptr(to_intptr(BitOr(shr(c_mod(i, j), 1), 1)))),
               box_from_intptr(to_intptr(BitOr(shr(c_div(i, j), 2), 1))))

integer_div(m, x, y) ==
  IF are_smallints(x, y) THEN integer_div_small(m, x, y)
  ELSE integer_div_generic(m, x, y)

integer_mod(m, x, y) ==
  IF are_smallints(x, y) THEN integer_mod_small(m, x, y)
  ELSE integer_mod_generic(m, x, y)

integer_div_mod(m, x, y) ==
  IF are_smallints(x, y) THEN integer_div_mod_small(m, x, y)
  ELSE integer_div_mod_generic(m, x, y)

integer_dec(m, x) ==
  IF is_smallint(x) THEN integer_sub_small(m, x, integer_one)
  ELSE integer_sub_generic(m, x, integer_one)

integer_inc_unchecked(m, x) ==
  IF is_smallint(x) THEN Ret(m, box_from_intptr(box_as_intptr(x) + 4))
  ELSE integer_add_generic(m, x, integer_one)

integer_inc(m, x) ==
  IF is_smallint(x) THEN integer_add_small(m, x, integer_one)
  ELSE integer_add_generic(m, x, integer_one)

(* ------------------------------------------------------------------ *)
(* The states an operation starts in                                   *)
(* ------------------------------------------------------------------ *)

\* The builds: smallint_t is SmallBits wide in both, so the word is
\* SmallBits wide with the builtins and twice that without.
Builds ==
  {[bits |-> SmallBits, builtin |-> TRUE], [bits |-> 2 * SmallBits, builtin |-> FALSE]}

SmallInts == SMALLINT_MIN .. SMALLINT_MAX

\* Values only a BigInt can hold (canonical form: never a SmallInt value)
BigVals == {SMALLINT_MAX + k : k \in 1 .. MaxBig} \cup {SMALLINT_MIN - k : k \in 1 .. MaxBig}

XAddrs == {4, WordMod - 4, (WordMod \div 2) - 4}

YAddrs == Addrs \ XAddrs

SmallOperands ==
  {[kind |-> "small", box |-> integer_from_small(n), val |-> n, rc |-> 0] : n \in SmallInts}

BigOperands(addrs) ==
  {[kind |-> "big", box |-> a, val |-> v, rc |-> r] :
      a \in addrs, v \in BigVals, r \in 1 .. MaxRc}

OperandsX == SmallOperands \cup BigOperands(XAddrs)

\* y is a SmallInt, a BigInt of its own, or a second reference to x's block
OperandsY(ox) ==
  SmallOperands \cup BigOperands(YAddrs) \cup
  (IF ox.kind = "big" THEN {[kind |-> "alias", box |-> ox.box, val |-> ox.val, rc |-> 0]}
   ELSE {})

HeapOf(ox, oy) ==
  [a \in Addrs |->
     IF ox.kind = "big" /\ a = ox.box
     THEN [tag |-> "TAG_BIGINT", val |-> ox.val,
           rc |-> ox.rc + (IF oy.kind = "alias" THEN 1 ELSE 0), free |-> "none"]
     ELSE IF oy.kind = "big" /\ a = oy.box
     THEN [tag |-> "TAG_BIGINT", val |-> oy.val, rc |-> oy.rc, free |-> "none"]
     ELSE FreeBlock]

InitCommon ==
  /\ \E b \in Builds : INTPTR_BITS = b.bits /\ USE_BUILTIN_OVF = b.builtin
  /\ pc = "init"
  /\ op = "none"
  /\ box = NoValue
  /\ res = NoValue
  /\ out = NoValue
  /\ calls = << >>
  /\ fault = "none"

\* two well-formed Integers, each an owned reference
Init ==
  /\ InitCommon
  /\ DEBUG = TRUE
  /\ DEBUG_GE_3 = FALSE
  /\ KK_CTAIL_NO_CONTEXT_PATH = FALSE
  /\ \E ox \in OperandsX : \E oy \in OperandsY(ox) :
        /\ in_x = ox.box
        /\ in_y = oy.box
        /\ heap = HeapOf(ox, oy)
  /\ heap0 = heap

\* one raw word (a pointer, an intx_t, the bits of a double), empty heap
InitBox ==
  /\ InitCommon
  /\ DEBUG \in BOOLEAN
  /\ DEBUG_GE_3 = FALSE
  /\ KK_CTAIL_NO_CONTEXT_PATH = FALSE
  /\ in_x \in Words
  /\ in_y = 0
  /\ heap = EmptyHeap
  /\ heap0 = heap

HALF_BITS == INTPTR_BITS \div 2

HalfWords == (- (2 ^ (HALF_BITS - 1))) .. ((2 ^ (HALF_BITS - 1)) - 1)

\* two raw operands that fit the half word
InitOvf ==
  /\ InitCommon
  /\ DEBUG = TRUE
  /\ DEBUG_GE_3 = FALSE
  /\ KK_CTAIL_NO_CONTEXT_PATH = FALSE
  /\ in_x \in HalfWords
  /\ in_y \in HalfWords
  /\ heap = EmptyHeap
  /\ heap0 = heap

(* ------------------------------------------------------------------ *)
(* The operations as steps                                             *)
(* ------------------------------------------------------------------ *)

M0 == Machine(heap, calls, fault)

\* the whole call of `name`, which ended in r
Apply(name, r) ==
  /\ pc = "init"
  /\ pc' = "done"
  /\ op' = name
  /\ heap' = r.heap
  /\ calls' = r.calls
  /\ fault' = r.fault
  /\ res' = r.ret
  /\ out' = r.out
  /\ UNCHANGED <<INTPTR_BITS, USE_BUILTIN_OVF, DEBUG, DEBUG_GE_3, KK_CTAIL_NO_CONTEXT_PATH, in_x, in_y, heap0, box>>

\* the first half of a round trip: the box is kept for the second half
ApplyBox(name, r) ==
  /\ pc = "init"
  /\ pc' = IF Failed(r) THEN "done" ELSE "boxed"
  /\ op' = name
  /\ heap' = r.heap
  /\ calls' = r.calls
  /\ fault' = r.fault
  /\ box' = r.ret
  /\ out' = r.out
  /\ UNCHANGED <<INTPTR_BITS, USE_BUILTIN_OVF, DEBUG, DEBUG_GE_3, KK_CTAIL_NO_CONTEXT_PATH, in_x, in_y, heap0, res>>

\* the second half: `name` applied to the box that `boxer` made
ApplyUnbox(boxer, name, r) ==
  /\ pc = "boxed"
  /\ op = boxer
  /\ pc' = "done"
  /\ op' = name
  /\ heap' = r.heap
  /\ calls' = r.calls
  /\ fault' = r.fault
  /\ res' = r.ret
  /\ out' = r.out
  /\ UNCHANGED <<INTPTR_BITS, USE_BUILTIN_OVF, DEBUG, DEBUG_GE_3, KK_CTAIL_NO_CONTEXT_PATH, in_x, in_y, heap0, box>>

IntegerAdd == Apply("integer_add", integer_add(M0, in_x, in_y))

IntegerAbs == Apply("integer_abs", integer_abs(M0, in_x))

IntegerCmp == \E mag \in 1 .. MaxCmp : Apply("integer_cmp", integer_cmp(M0, in_x, in_y, mag))

IntegerLt == \E mag \in 1 .. MaxCmp : Apply("integer_lt", integer_lt(M0, in_x, in_y, mag))

IntegerLte == \E mag \in 1 .. MaxCmp : Apply("integer_lte", integer_lte(M0, in_x, in_y, mag))

IntegerGt == \E mag \in 1 .. MaxCmp : Apply("integer_gt", integer_gt(M0, in_x, in_y, mag))

IntegerGte == \E mag \in 1 .. MaxCmp : Apply("integer_gte", integer_gte(M0, in_x, in_y, mag))

IntegerEq == \E mag \in 1 .. MaxCmp : Apply("integer_eq", integer_eq(M0, in_x, in_y, mag))

IntegerNeq == \E mag \in 1 .. MaxCmp : Apply("integer_neq", integer_neq(M0, in_x, in_y, mag))

IntegerMax == \E mag \in 1 .. MaxCmp : Apply("integer_max", integer_max(M0, in_x, in_y, mag))

IntegerMin == \E mag \in 1 .. MaxCmp : Apply("integer_min", integer_min(M0, in_x, in_y, mag))

AreSmallints ==
  Apply("are_smallints",
        Ret(assert_internal(M0, is_integer(M0, in_x) /\ is_integer(M0, in_y)),
            CBool(are_smallints(in_x, in_y))))

IntegerSub == Apply("integer_sub", integer_sub(M0, in_x, in_y))

IntegerNeg == Apply("integer_neg", integer_neg(M0, in_x))

IntegerMul == Apply("integer_mul", integer_mul(M0, in_x, in_y))

IntegerSqr == Apply("integer_sqr", integer_sqr(M0, in_x))

IntegerDiv == Apply("integer_div", integer_div(M0, in_x, in_y))

IntegerMod == Apply("integer_mod", integer_mod(M0, in_x, in_y))

IntegerDivMod == Apply("integer_div_mod", integer_div_mod(M0, in_x, in_y))

IntegerInc == Apply("integer_inc", integer_inc(M0, in_x))

IntegerDec == Apply("integer_dec", integer_dec(M0, in_x))

Next ==
  \/ IntegerAdd
  \/ IntegerSub
  \/ IntegerNeg
  \/ IntegerMul
  \/ IntegerSqr
  \/ IntegerDiv
  \/ IntegerMod
  \/ IntegerDivMod
  \/ IntegerInc
  \/ IntegerDec
  \/ IntegerAbs
  \/ IntegerCmp
  \/ IntegerLt
  \/ IntegerLte
  \/ IntegerGt
  \/ IntegerGte
  \/ IntegerEq
  \/ IntegerNeq
  \/ IntegerMax
  \/ IntegerMin
  \/ AreSmallints

Spec == Init /\ [][Next]_vars

BoxPtr == ApplyBox("box_ptr", box_ptr(M0, in_x))

UnboxPtr == ApplyUnbox("box_ptr", "unbox_ptr", unbox_ptr(M0, box))

BoxDouble == ApplyBox("box_double", box_double(M0, in_x))

UnboxDouble == ApplyUnbox("box_double", "unbox_double", unbox_double(M0, box))

IntegerFromInt == ApplyBox("integer_from_int", integer_from_int(M0, to_intptr(in_x)))

\* smallint_from_integer is for known small ints only
SmallintFromInteger ==
  /\ pc = "boxed"
  /\ is_smallint(box)
  /\ ApplyUnbox("integer_from_int", "smallint_from_integer",
                Ret(assert_internal(M0, smallint_from_integer_pre(box)),
                    smallint_from_integer(box)))

BoxInt ==
  ApplyBox("box_int",
           Ret(assert_internal(M0, box_int_pre(to_intptr(in_x))), box_int(to_intptr(in_x))))

UnboxInt ==
  ApplyUnbox("box_int", "unbox_int",
             Ret(assert_internal(M0, unbox_int_pre(box)), unbox_int(box)))

BoxEnum == ApplyBox("box_enum", Ret(assert_internal(M0, box_enum_pre(in_x)), box_enum(in_x)))

UnboxEnum ==
  ApplyUnbox("box_enum", "unbox_enum",
             Ret(assert_internal(M0, unbox_enum_pre(box)), unbox_enum(box)))

\* the argument of box_bool is a bool
BoxBool ==
  /\ in_x \in {0, 1}
  /\ ApplyBox("box_bool", Ret(assert_internal(M0, box_enum_pre(in_x)), box_bool(in_x)))

UnboxBool ==
  ApplyUnbox("box_bool", "unbox_bool",
             Ret(assert_internal(M0, unbox_enum_pre(box)), unbox_bool(box)))

BoxCptr == ApplyBox("box_cptr", box_cptr(M0, in_x))

UnboxCptr == ApplyUnbox("box_cptr", "unbox_cptr", unbox_cptr(M0, box))

BoxFunPtr == ApplyBox("box_fun_ptr", box_fun_ptr(M0, in_x))

UnboxFunPtr == ApplyUnbox("box_fun_ptr", "unbox_fun_ptr", unbox_fun_ptr(M0, box))

NextBox ==
  \/ BoxCptr
  \/ UnboxCptr
  \/ BoxFunPtr
  \/ UnboxFunPtr
  \/ BoxInt
  \/ UnboxInt
  \/ BoxEnum
  \/ UnboxEnum
  \/ BoxBool
  \/ UnboxBool
  \/ BoxPtr
  \/ UnboxPtr
  \/ BoxDouble
  \/ UnboxDouble
  \/ IntegerFromInt
  \/ SmallintFromInteger

SpecBox == InitBox /\ [][NextBox]_vars

\* both builds of an overflow primitive on the same half-word operands
ApplyOvf(name, b, p) ==
  Apply(name, Ret(M0, [builtin |-> b, portable |-> p]))

SmallintAddOvf ==
  ApplyOvf("smallint_add_ovf",
           builtin_add_ovf(HALF_BITS, in_x, in_y), portable_add_ovf(HALF_BITS, in_x, in_y))

SmallintSubOvf ==
  ApplyOvf("smallint_sub_ovf",
           builtin_sub_ovf(HALF_BITS, in_x, in_y), portable_sub_ovf(HALF_BITS, in_x, in_y))

SmallintMulOvf ==
  ApplyOvf("smallint_mul_ovf",
           builtin_mul_ovf(HALF_BITS, in_x, in_y), portable_mul_ovf(HALF_BITS, in_x, in_y))

NextOvf ==
  \/ SmallintAddOvf
  \/ SmallintSubOvf
  \/ SmallintMulOvf

SpecOvf == InitOvf /\ [][NextOvf]_vars

\* the six comparisons, each called on the same pair of operands (each call
\* owning its references) and with integer_cmp_generic answering alike
CompareAll ==
  \E mag \in 1 .. MaxCmp :
    Apply("compare",
          Ret(M0, [lt  |-> integer_lt(M0, in_x, in_y, mag).ret,
                   lte |-> integer_lte(M0, in_x, in_y, mag).ret,
                   gt  |-> integer_gt(M0, in_x, in_y, mag).ret,
                   gte |-> integer_gte(M0, in_x, in_y, mag).ret,
                   eq  |-> integer_eq(M0, in_x, in_y, mag).ret,
                   neq |-> integer_neq(M0, in_x, in_y, mag).ret,
                   cmp |-> integer_cmp(M0, in_x, in_y, mag).ret]))

NextCmp == CompareAll

SpecCmp == Init /\ [][NextCmp]_vars

(* ------------------------------------------------------------------ *)
(* part_000: constructor contexts (a context res with a hole in it)    *)
(* ------------------------------------------------------------------ *)

\* kk_ptr_unbox: the block a box points to
kk_ptr_unbox(b) == b

\* kk_block_is_unique: the block has exactly one reference
kk_block_is_unique(m, p) == p \in DOMAIN m.heap /\ m.heap[p].rc = 1

\* kk_ctail_hole() is kk_intf_box(0)
kk_ctail_hole == box_int(0)

\* kk_ctail_context_copy_compose: a copy of the context with child in its
\* hole; the context itself is left as it is
kk_ctail_context_copy_compose(m, ctx_res, child) ==
  LET m1 == Call(m, "kk_ctail_context_copy_compose", <<ctx_res, child>>)
      m2 == block_alloc(m1, "TAG_CONTEXT", child)
  IN  IF Failed(m2) THEN m2 ELSE Ret(m2, m2.ret)

\* *(acc.hole) = child
write_hole(m, hole, child) ==
  IF Failed(m) THEN m
  ELSE [m EXCEPT !.heap = [m.heap EXCEPT ![hole].val = child]]

kk_ctail_apply_in_place(m, acc, child, is_linear) ==
  IF acc.hole # NULL THEN Ret(write_hole(m, acc.hole, child), acc.res) ELSE Ret(m, child)

kk_ctail_apply(m, acc, child, is_linear) ==
  IF ~KK_CTAIL_NO_CONTEXT_PATH
  THEN IF acc.hole # NULL /\ (is_linear \/ kk_block_is_unique(m, kk_ptr_unbox(acc.res)))
       THEN LET m1 == assert_internal(m, kk_block_is_unique(m, kk_ptr_unbox(acc.res)))
            IN  Ret(write_hole(m1, acc.hole, child), acc.res)
       ELSE IF acc.hole = NULL THEN Ret(m, child)
       ELSE kk_ctail_context_copy_compose(m, acc.res, child)
  ELSE IF acc.hole # NULL
       THEN LET m1 == assert_internal(m, kk_block_is_unique(m, kk_ptr_unbox(acc.res)))
            IN  Ret(write_hole(m1, acc.hole, child), acc.res)
       ELSE Ret(m, child)

\* The contexts tried: kk_ctail_unit (no hole), or a context block at r with
\* rc references whose hole is a field of that block or of a block below it.
Contexts ==
  {[res |-> kk_ctail_hole, hole |-> NULL, rc |-> 0]}
    \cup {[res |-> r, hole |-> r, rc |-> c] : r \in XAddrs, c \in 1 .. MaxRc}
    \cup {[res |-> r, hole |-> h, rc |-> c] : r \in XAddrs, h \in YAddrs, c \in 1 .. MaxRc}

\* the children tried: immediates
Children == {box_int(k) : k \in 1 .. MaxBlocks}

ContextHeap(acc) ==
  [a \in Addrs |->
     IF acc.hole # NULL /\ a = acc.res
     THEN [tag |-> "TAG_CONTEXT", rc |-> acc.rc, val |-> kk_ctail_hole, free |-> "none"]
     ELSE IF acc.hole # NULL /\ a = acc.hole
     THEN [tag |-> "TAG_CONTEXT", rc |-> 1, val |-> kk_ctail_hole, free |-> "none"]
     ELSE FreeBlock]

\* in_x is acc with the count of its block, in_y the other arguments
InitCtail ==
  /\ InitCommon
  /\ DEBUG \in BOOLEAN
  /\ DEBUG_GE_3 = FALSE
  /\ KK_CTAIL_NO_CONTEXT_PATH \in BOOLEAN
  /\ in_x \in Contexts
  /\ in_y \in [child : Children, is_linear : BOOLEAN]
  /\ heap = ContextHeap(in_x)
  /\ heap0 = heap

KkCtailApply ==
  Apply("kk_ctail_apply", kk_ctail_apply(M0, in_x, in_y.child, in_y.is_linear))

NextCtail == KkCtailApply

SpecCtail == InitCtail /\ [][NextCtail]_vars

(* ------------------------------------------------------------------ *)
(* The tests for 0, 1 and -1 on the operands of Init                   *)
(* ------------------------------------------------------------------ *)

IntegerIsZero == Apply("integer_is_zero", integer_is_zero(M0, in_x))

IntegerIsOne == Apply("integer_is_one", integer_is_one(M0, in_x))

IntegerIsMinusOne == Apply("integer_is_minus_one", integer_is_minus_one(M0, in_x))

NextIs ==
  \/ IntegerIsZero
  \/ IntegerIsOne
  \/ IntegerIsMinusOne

SpecIs == Init /\ [][NextIs]_vars

(* ------------------------------------------------------------------ *)
(* NaN boxing: a double is boxed, unboxed and boxed again              *)
(* ------------------------------------------------------------------ *)

InitNan ==
  /\ INTPTR_BITS = NanBoxBits
  /\ USE_BUILTIN_OVF \in BOOLEAN
  /\ DEBUG \in BOOLEAN
  /\ DEBUG_GE_3 \in BOOLEAN
  /\ KK_CTAIL_NO_CONTEXT_PATH = FALSE
  /\ pc = "init"
  /\ op = "none"
  /\ in_x \in Words
  /\ in_y = 0
  /\ heap = EmptyHeap
  /\ heap0 = heap
  /\ box = NoValue
  /\ res = NoValue
  /\ out = NoValue
  /\ calls = << >>
  /\ fault = "none"

BoxDoubleNan == ApplyBox("box_double_nan_box", box_double_nan_box(M0, in_x))

UnboxDoubleNan ==
  ApplyUnbox("box_double_nan_box", "unbox_double_nan_box", unbox_double_nan_box(M0, box))

\* the double that came out is boxed again: res becomes the second box
ReboxDoubleNan ==
  LET r == box_double_nan_box(M0, res)
  IN  /\ pc = "done"
      /\ op = "unbox_double_nan_box"
      /\ fault = "none"
      /\ pc' = "reboxed"
      /\ heap' = r.heap
      /\ calls' = r.calls
      /\ fault' = r.fault
      /\ res' = r.ret
      /\ out' = r.out
      /\ UNCHANGED <<INTPTR_BITS, USE_BUILTIN_OVF, DEBUG, DEBUG_GE_3, KK_CTAIL_NO_CONTEXT_PATH, op, in_x, in_y, heap0, box>>

NextNan ==
  \/ BoxDoubleNan
  \/ UnboxDoubleNan
  \/ ReboxDoubleNan

SpecNan == InitNan /\ [][NextNan]_vars

(* ------------------------------------------------------------------ *)
(* Properties                                                          *)
(* ------------------------------------------------------------------ *)

\* the word 4n+1
Boxed(n) == (4 * n + 1) % WordMod

\* w is the word of a SmallInt
IsSmallWord(w) == \E n \in SmallInts : w = Boxed(n)

\* the n with w = 4n+1
Unboxed(w) == (to_intptr(w) - 1) \div 4

\* w points to a live BigInt block that holds v and has one reference
IsFreshBigInt(w, v) ==
  /\ w \in Addrs
  /\ heap[w] = [tag |-> "TAG_BIGINT", rc |-> 1, val |-> v, free |-> "none"]

\* C1: for SmallInts x = boxed(n), y = boxed(m), integer_add returns the
\* word 4(n+m)+1 without a call of integer_add_generic when n+m is in
\* [SMALLINT_MIN, SMALLINT_MAX]; otherwise it returns what
\* integer_add_generic returns for the unchanged operands (a BigInt holding
\* n+m), never a wrapped or truncated SmallInt.
C1_AddSmallInts ==
  (pc = "done" /\ op = "integer_add" /\ IsSmallWord(in_x) /\ IsSmallWord(in_y)) =>
    LET n == Unboxed(in_x)
        m == Unboxed(in_y)
    IN  /\ fault = "none"
        /\ IF n + m \in SmallInts
           THEN res = Boxed(n + m) /\ calls = << >>
           ELSE /\ calls = << [f |-> "integer_add_generic", args |-> <<in_x, in_y>>] >>
                /\ res % 2 = 0
                /\ IsFreshBigInt(res, n + m)

\* C1 witness: SMALLINT_MAX + 1 went through the generic routine
C1_Witness ==
  /\ pc = "done" /\ op = "integer_add"
  /\ in_x = Boxed(SMALLINT_MAX) /\ in_y = Boxed(1)
  /\ Len(calls) = 1
  /\ IsFreshBigInt(res, SMALLINT_MAX + 1)

\* C2: for n in [SMALLINT_MIN, SMALLINT_MAX], integer_from_int(n) is the
\* immediate word 4n+1 and smallint_from_integer of it is n; for any other
\* n integer_from_int delegates to integer_from_big and does not return
\* an immediate.
C2_FromIntRoundTrip ==
  (pc # "init" /\ op \in {"integer_from_int", "smallint_from_integer"}) =>
    LET n == to_intptr(in_x)
    IN  /\ fault = "none"
        /\ IF n \in SmallInts
           THEN /\ box = Boxed(n)
                /\ calls = << >>
                /\ heap = heap0
                /\ (op = "smallint_from_integer" => res = n)
           ELSE /\ calls = << [f |-> "integer_from_big", args |-> <<n>>] >>
                /\ box % 2 = 0
                /\ op = "integer_from_int"

\* C2 witness: SMALLINT_MIN made the round trip
C2_Witness ==
  /\ pc = "done" /\ op = "smallint_from_integer"
  /\ to_intptr(in_x) = SMALLINT_MIN
  /\ res = SMALLINT_MIN

\* the sign bit of the IEEE bit pattern d
SignBit(d) == d \div (2 ^ (INTPTR_BITS - 1))

\* C3: (strategy A) unbox_double(box_double(d)) has the bits of d for every
\* bit pattern d; a pattern with sign bit 0 is boxed as the immediate
\* (d<<1)|1 without allocation, a pattern with sign bit 1 (-0.0 included)
\* as a pointer to a fresh block tagged TAG_DOUBLE that holds d.
C3_DoubleRoundTrip ==
  /\ (pc = "boxed" /\ op = "box_double") =>
       /\ fault = "none"
       /\ IF SignBit(in_x) = 0
          THEN box = 2 * in_x + 1 /\ heap = EmptyHeap
          ELSE /\ box % 2 = 0
               /\ box \in Addrs
               /\ heap[box] = [tag |-> "TAG_DOUBLE", rc |-> 1, val |-> in_x, free |-> "none"]
  /\ (op = "box_double") => pc = "boxed"
  /\ (pc = "done" /\ op = "unbox_double") =>
       /\ fault = "none"
       /\ res = in_x

\* C3 witness: -0.0 (only the sign bit set) came back from its heap block
C3_Witness ==
  /\ pc = "done" /\ op = "unbox_double"
  /\ in_x = 2 ^ (INTPTR_BITS - 1)
  /\ box \in Addrs
  /\ res = in_x

\* p is a pointer box_ptr accepts
GoodPtr(p) == p # 0 /\ p % 4 = 0

\* C4: for a non-null pointer p with low two bits zero, box_ptr(p) is the
\* word p unchanged, is_ptr holds for it, and unbox_ptr gives p back.
C4_PtrRoundTrip ==
  (GoodPtr(in_x) /\ op \in {"box_ptr", "unbox_ptr"}) =>
    /\ fault = "none"
    /\ pc = (IF op = "box_ptr" THEN "boxed" ELSE "done")
    /\ box = in_x
    /\ is_ptr(box)
    /\ (op = "unbox_ptr" => res = in_x)

\* C4 witness: a high address made the round trip
C4_Witness ==
  /\ pc = "done" /\ op = "unbox_ptr"
  /\ in_x = WordMod - 4
  /\ res = in_x

\* C5: for a pointer that is null or has one of its low two bits set,
\* box_ptr fails its assertion in a debug build and returns nothing; in no
\* build does it return a box with the low bits masked or corrected (where
\* the assertion is compiled out, the word comes back as it is).
C5_BadPtrAsserts ==
  (~GoodPtr(in_x) /\ op \in {"box_ptr", "unbox_ptr"}) =>
    /\ DEBUG => (op = "box_ptr" /\ pc = "done" /\ fault = "assert_internal")
    /\ ~DEBUG => (fault = "none" /\ box = in_x)

\* C5 witness: an odd address stopped at the assertion
C5_Witness ==
  /\ DEBUG /\ op = "box_ptr" /\ pc = "done"
  /\ in_x % 2 = 1
  /\ fault = "assert_internal"

\* the number the operand w stood for before the operation
Value0(w) == IF w % 2 = 1 THEN Unboxed(w) ELSE heap0[w].val

BothSmall == IsSmallWord(in_x) /\ IsSmallWord(in_y)

\* C6: for SmallInts x = boxed(n), y = boxed(m) the comparisons of the raw
\* words agree with the comparisons of n and m: integer_cmp returns -1, 0
\* or 1, the six predicates return n<m, n<=m, n>m, n>=m, n=m, n#m, and
\* integer_cmp_generic is not called.
C6_CompareSmallInts ==
  (pc = "done" /\ BothSmall) =>
    LET n == Unboxed(in_x)
        m == Unboxed(in_y)
    IN  /\ (op = "integer_cmp" => res = Sign(n - m))
        /\ (op = "integer_lt"  => res = CBool(n < m))
        /\ (op = "integer_lte" => res = CBool(n <= m))
        /\ (op = "integer_gt"  => res = CBool(n > m))
        /\ (op = "integer_gte" => res = CBool(n >= m))
        /\ (op = "integer_eq"  => res = CBool(n = m))
        /\ (op = "integer_neq" => res = CBool(n # m))
        /\ (op \in {"integer_cmp", "integer_lt", "integer_lte", "integer_gt",
                    "integer_gte", "integer_eq", "integer_neq"}
              => calls = << >> /\ fault = "none" /\ heap = heap0)

\* C6 witness: the smallest SmallInt is below the largest, by signed words
C6_Witness ==
  /\ pc = "done" /\ op = "integer_lte"
  /\ in_x = Boxed(SMALLINT_MIN) /\ in_y = Boxed(SMALLINT_MAX)
  /\ res = CBool(TRUE)

\* integer_max returned the larger operand, integer_min the smaller
PicksRightOperand ==
  /\ res \in {in_x, in_y}
  /\ op = "integer_max" => (Value0(res) >= Value0(in_x) /\ Value0(res) >= Value0(in_y))
  /\ op = "integer_min" => (Value0(res) <= Value0(in_x) /\ Value0(res) <= Value0(in_y))

\* the operand that was not returned
Discarded == IF res = in_x THEN in_y ELSE in_x

\* the block of the returned operand is as it was
KeptUnchanged == res % 2 = 0 => heap[res] = heap0[res]

\* the block of the discarded operand has one reference less, and nothing else changed
DiscardedDropped ==
  Discarded % 2 = 0 =>
    /\ heap[Discarded].rc = heap0[Discarded].rc - 1
    /\ heap[Discarded].rc > 0 => heap[Discarded] = [heap0[Discarded] EXCEPT !.rc = @ - 1]

\* C7 as claimed: integer_max (integer_min) returns the larger (smaller)
\* operand unmodified; the count of the returned operand's block is
\* unchanged and that of the discarded operand's block is lower by exactly
\* one, whatever pair of Integers is passed; no block is dropped twice or
\* used after release.
C7_Original ==
  (pc = "done" /\ op \in {"integer_max", "integer_min"}) =>
    /\ fault = "none"
    /\ PicksRightOperand
    /\ KeptUnchanged
    /\ DiscardedDropped

\* C7 as amended: the above holds when the operands are not two references
\* to one block; when they are (x and y the same BigInt pointer), that
\* block is returned with its count lower by exactly one: the two owned
\* references become the one returned.
C7_MaxMinRefcounts ==
  (pc = "done" /\ op \in {"integer_max", "integer_min"}) =>
    /\ fault = "none"
    /\ PicksRightOperand
    /\ \A a \in Addrs \ {in_x, in_y} : heap[a] = heap0[a]
    /\ IF in_x = in_y /\ in_x % 2 = 0
       THEN heap[res] = [heap0[res] EXCEPT !.rc = @ - 1]
       ELSE KeptUnchanged /\ DiscardedDropped

\* C7 witness: two BigInts, y the larger: x's only reference was released
C7_Witness ==
  /\ pc = "done" /\ op = "integer_max"
  /\ in_x % 2 = 0 /\ in_y % 2 = 0 /\ in_x # in_y
  /\ res = in_y
  /\ heap0[in_x].rc = 1
  /\ heap[in_x] = FreeBlock
  /\ heap[in_y] = heap0[in_y]

\* C8: for a BigInt x, integer_abs returns |x| and consumes exactly one
\* reference to x: a non-negative x is returned itself with its block as
\* it was; for a negative x a BigInt holding -x is returned and x's block
\* has one reference less (at zero it is released, and may be the very
\* block the result is allocated in); no released block is used.
C8_AbsBigInt ==
  (pc = "done" /\ op = "integer_abs" /\ in_x % 2 = 0) =>
    /\ fault = "none"
    /\ IF heap0[in_x].val >= 0
       THEN res = in_x /\ heap[in_x] = heap0[in_x]
       ELSE /\ IsFreshBigInt(res, - heap0[in_x].val)
            /\ res = in_x => heap0[in_x].rc = 1
            /\ res # in_x => heap[in_x].rc = heap0[in_x].rc - 1

HalfMax == (2 ^ (HALF_BITS - 1)) - 1

HalfMin == - (2 ^ (HALF_BITS - 1))

\* the exact result of the primitive that was applied
Exact ==
  IF op = "smallint_add_ovf" THEN in_x + in_y
  ELSE IF op = "smallint_sub_ovf" THEN in_x - in_y
  ELSE in_x * in_y

C10_AreSmallints ==
  (pc = "done" /\ op = "are_smallints") =>
    /\ fault = "none"
    /\ res = CBool(in_x % 2 = 1 /\ in_y % 2 = 1)
    /\ res = CBool(is_smallint(in_x) /\ is_smallint(in_y))
    /\ res = CBool(IsSmallWord(in_x) /\ IsSmallWord(in_y))

\* C10 witness: a value and a pointer are not two SmallInts
C10_Witness ==
  /\ pc = "done" /\ op = "are_smallints"
  /\ in_x % 2 = 1 /\ in_y % 2 = 0
  /\ res = CBool(FALSE)

DivOps == {"integer_div", "integer_mod", "integer_div_mod"}

\* C13: for SmallInts x = boxed(n), y = boxed(m) with m # 0 and n / m a
\* SmallInt, integer_div returns the word 4(n/m)+1 and integer_mod the word
\* 4(n%m)+1 (truncating), integer_div_mod returns that quotient and stores
\* that remainder, and each is the word the generic routine returns for
\* the same operands.
C13_DivModSmallInts ==
  (/\ pc = "done" /\ op \in DivOps /\ BothSmall
   /\ Unboxed(in_y) # 0
   /\ c_div(Unboxed(in_x), Unboxed(in_y)) \in SmallInts) =>
    LET q  == c_div(Unboxed(in_x), Unboxed(in_y))
        r  == c_mod(Unboxed(in_x), Unboxed(in_y))
        m0 == Machine(heap0, << >>, "none")
    IN  /\ fault = "none"
        /\ op = "integer_div" =>
              res = Boxed(q) /\ res = integer_div_generic(m0, in_x, in_y).ret
        /\ op = "integer_mod" =>
              res = Boxed(r) /\ res = integer_mod_generic(m0, in_x, in_y).ret
        /\ op = "integer_div_mod" =>
              /\ res = Boxed(q) /\ out = Boxed(r)
              /\ res = integer_div_mod_generic(m0, in_x, in_y).ret
              /\ out = integer_div_mod_generic(m0, in_x, in_y).out

\* the heap before the operation, as a machine
Before == Machine(heap0, << >>, "none")

\* C14: for a SmallInt x = boxed(n), integer_inc returns the word 4(n+1)+1
\* when n < SMALLINT_MAX and calls integer_add_generic(x, integer_one) when
\* n = SMALLINT_MAX; integer_dec returns 4(n-1)+1 when n > SMALLINT_MIN and
\* calls integer_sub_generic(x, integer_one) when n = SMALLINT_MIN; an
\* immediate that is returned is always in the SmallInt range.
C14_IncDec ==
  (pc = "done" /\ op \in {"integer_inc", "integer_dec"} /\ IsSmallWord(in_x)) =>
    LET n == Unboxed(in_x)
        v == IF op = "integer_inc" THEN n + 1 ELSE n - 1
        g == IF op = "integer_inc" THEN "integer_add_generic" ELSE "integer_sub_generic"
    IN  /\ fault = "none"
        /\ (op = "integer_inc" /\ n < SMALLINT_MAX) \/ (op = "integer_dec" /\ n > SMALLINT_MIN)
             => (res = Boxed(v) /\ calls = << >> /\ heap = heap0)
        /\ (op = "integer_inc" /\ n = SMALLINT_MAX) \/ (op = "integer_dec" /\ n = SMALLINT_MIN)
             => /\ calls = << [f |-> g, args |-> <<in_x, integer_one>>] >>
                /\ IsFreshBigInt(res, v)
        /\ res % 2 = 1 => IsSmallWord(res)

\* C14 witness: SMALLINT_MAX was incremented into a BigInt
C14_Witness ==
  /\ pc = "done" /\ op = "integer_inc"
  /\ in_x = Boxed(SMALLINT_MAX)
  /\ calls = << [f |-> "integer_add_generic", args |-> <<in_x, integer_one>>] >>
  /\ IsFreshBigInt(res, SMALLINT_MAX + 1)

\* C16: for SmallInts x = boxed(n), y = boxed(m), integer_sub returns the
\* word 4(n-m)+1 without a generic call exactly when n-m is in
\* [SMALLINT_MIN, SMALLINT_MAX] and otherwise calls integer_sub_generic;
\* integer_neg of a SmallInt is integer_sub(integer_zero, x): boxed(-n) for
\* n # SMALLINT_MIN, the generic routine for n = SMALLINT_MIN.
C16_SubNegSmallInts ==
  /\ (pc = "done" /\ op = "integer_sub" /\ BothSmall) =>
       LET n == Unboxed(in_x)
           m == Unboxed(in_y)
       IN  /\ fault = "none"
           /\ IF n - m \in SmallInts
              THEN res = Boxed(n - m) /\ calls = << >>
              ELSE /\ calls = << [f |-> "integer_sub_generic", args |-> <<in_x, in_y>>] >>
                   /\ IsFreshBigInt(res, n - m)
  /\ (pc = "done" /\ op = "integer_neg" /\ IsSmallWord(in_x)) =>
       LET n == Unboxed(in_x)
           s == integer_sub(Before, integer_zero, in_x)
       IN  /\ fault = "none"
           /\ res = s.ret /\ calls = s.calls /\ heap = s.heap
           /\ IF n # SMALLINT_MIN
              THEN res = Boxed(- n) /\ calls = << >>
              ELSE /\ calls = << [f |-> "integer_sub_generic", args |-> <<integer_zero, in_x>>] >>
                   /\ IsFreshBigInt(res, - n)

\* C16 witness: the negation of SMALLINT_MIN went through the generic routine
C16_Witness ==
  /\ pc = "done" /\ op = "integer_neg"
  /\ in_x = Boxed(SMALLINT_MIN)
  /\ Len(calls) = 1
  /\ IsFreshBigInt(res, SMALLINT_MAX + 1)

MulOps == {"integer_mul", "integer_sqr"}

\* the second factor: y for integer_mul, x again for integer_sqr
Factor2 == IF op = "integer_sqr" THEN in_x ELSE in_y

\* integer_mul (integer_sqr) on SmallInts returns 4(n*m)+1 exactly when n*m
\* is a SmallInt and otherwise calls integer_mul_generic
MulFastOrGeneric ==
  LET n == Unboxed(in_x)
      m == Unboxed(Factor2)
  IN  /\ fault = "none"
      /\ IF n * m \in SmallInts
         THEN res = Boxed(n * m) /\ calls = << >>
         ELSE /\ calls = << [f |-> "integer_mul_generic", args |-> <<in_x, Factor2>>] >>
              /\ IsFreshBigInt(res, n * m)

\* the product of the shifted operands 2n and 2m does not fit intptr_t
ProductOverflowsWord == signed_overflow(sar(box_as_intptr(in_x), 1) * sar(box_as_intptr(Factor2), 1))

\* C17 as claimed: for SmallInts x = boxed(n), y = boxed(m), integer_mul
\* returns the word 4(n*m)+1 exactly when n*m is in [SMALLINT_MIN,
\* SMALLINT_MAX] (SMALLINT_MIN included) and otherwise calls
\* integer_mul_generic; the full-width product of 2n and 2m never
\* overflows the native word.
C17_Original ==
  (pc = "done" /\ op \in MulOps /\ IsSmallWord(in_x) /\ IsSmallWord(Factor2)) =>
    /\ MulFastOrGeneric
    /\ ~ProductOverflowsWord

\* C17 as amended: the first part as claimed; the product of 2n and 2m
\* never overflows the native word in the build with the portable
\* primitive (smallint_t the half word); in the build with the intrinsic
\* (smallint_t the full word) it can, and then the intrinsic reports
\* overflow and integer_mul_generic is called.
C17_MulSmallInts ==
  (pc = "done" /\ op \in MulOps /\ IsSmallWord(in_x) /\ IsSmallWord(Factor2)) =>
    /\ MulFastOrGeneric
    /\ ~USE_BUILTIN_OVF => ~ProductOverflowsWord
    /\ ProductOverflowsWord => (USE_BUILTIN_OVF /\ Len(calls) = 1)

\* C17 witness: a product equal to SMALLINT_MIN stays an immediate
C17_Witness ==
  /\ pc = "done" /\ op = "integer_mul"
  /\ in_x = Boxed(SMALLINT_MIN \div 2) /\ in_y = Boxed(2)
  /\ res = Boxed(SMALLINT_MIN)
  /\ calls = << >>

\* C18: for every pair of well-formed Integers, whatever negative, zero or
\* positive int integer_cmp_generic returns for less, equal, greater:
\* exactly one of integer_lt, integer_eq, integer_gt is true, integer_lte
\* is the negation of integer_gt, integer_gte the negation of integer_lt
\* and integer_neq the negation of integer_eq.
C18_TotalOrder ==
  (pc = "done" /\ op = "compare") =>
    /\ res.lt + res.eq + res.gt = 1
    /\ res.lte = 1 - res.gt
    /\ res.gte = 1 - res.lt
    /\ res.neq = 1 - res.eq

GenericOf == IF op = "integer_div" THEN "integer_div_generic"
             ELSE IF op = "integer_mod" THEN "integer_mod_generic"
             ELSE "integer_div_mod_generic"

\* C20: for SmallInt operands, integer_div, integer_mod and
\* integer_div_mod call the corresponding generic routine whenever the
\* divisor is boxed(0) or the quotient is not a SmallInt (SMALLINT_MIN
\* divided by -1); the fast path never divides by zero and never returns
\* an immediate outside the SmallInt range.
C20_DivDelegates ==
  (pc = "done" /\ op \in DivOps /\ BothSmall) =>
    /\ fault = "none"
    /\ (Unboxed(in_y) = 0 \/ c_div(Unboxed(in_x), Unboxed(in_y)) \notin SmallInts)
          => calls = << [f |-> GenericOf, args |-> <<in_x, in_y>>] >>
    /\ res % 2 = 1 => IsSmallWord(res)

\* C15: for n in [MIN_BOXED_INT, MAX_BOXED_INT], box_int(n) is the word
\* (n<<1)|1 and unbox_int gives n back; for u <= MAX_BOXED_UINT, unbox_enum
\* of box_enum(u) is u; for both booleans unbox_bool of box_bool(b) is b;
\* each of these boxes is a value (is_value) and not a pointer (is_ptr).
C15_ImmediateRoundTrips ==
  LET n == to_intptr(in_x)
      inrange == (op \in {"box_int", "unbox_int"} /\ n >= MIN_BOXED_INT /\ n <= MAX_BOXED_INT)
                 \/ (op \in {"box_enum", "unbox_enum"} /\ in_x <= MAX_BOXED_UINT)
                 \/ op \in {"box_bool", "unbox_bool"}
  IN  inrange =>
        /\ fault = "none"
        /\ pc \in {"boxed", "done"}
        /\ is_value(box) /\ ~is_ptr(box)
        /\ heap = EmptyHeap
        /\ op \in {"box_int", "unbox_int"} => box = (2 * n + 1) % WordMod
        /\ op \in {"box_enum", "unbox_enum", "box_bool", "unbox_bool"} => box = 2 * in_x + 1
        /\ op \in {"box_int", "box_enum", "box_bool"} => pc = "boxed"
        /\ op = "unbox_int" => res = n
        /\ op \in {"unbox_enum", "unbox_bool"} => res = in_x

\* C15 witness: the smallest boxable int came back from its box
C15_Witness ==
  /\ pc = "done" /\ op = "unbox_int"
  /\ to_intptr(in_x) = MIN_BOXED_INT
  /\ box = (2 * MIN_BOXED_INT + 1) % WordMod
  /\ res = MIN_BOXED_INT

\* the block that box_cptr_raw / box_fun_ptr allocated in the empty heap
FreshBlock(tag, v, f) ==
  /\ box \in Addrs
  /\ heap = [EmptyHeap EXCEPT ![box] = [tag |-> tag, rc |-> 1, val |-> v, free |-> f]]

\* C12: unbox_cptr(box_cptr(p)) is p bit for bit; a p whose integer value
\* lies in [MIN_BOXED_INT, MAX_BOXED_INT] is the immediate box_int(p) with
\* no allocation, any other p is in a TAG_CPTR_RAW block whose free function
\* is free_fun_null; box_fun_ptr always allocates a TAG_CFUNPTR block and
\* unbox_fun_ptr returns f.
C12_CptrRoundTrip ==
  LET i == to_intptr(in_x)
      fits == i >= MIN_BOXED_INT /\ i <= MAX_BOXED_INT
  IN  /\ op \in {"box_cptr", "unbox_cptr", "box_fun_ptr", "unbox_fun_ptr"} =>
           fault = "none" /\ calls = << >>
      /\ op \in {"box_cptr", "unbox_cptr"} /\ fits =>
           box = box_int(i) /\ heap = EmptyHeap
      /\ op \in {"box_cptr", "unbox_cptr"} /\ ~fits =>
           is_ptr(box) /\ FreshBlock("TAG_CPTR_RAW", in_x, "free_fun_null")
      /\ op \in {"box_fun_ptr", "unbox_fun_ptr"} =>
           is_ptr(box) /\ FreshBlock("TAG_CFUNPTR", in_x, "none")
      /\ op \in {"box_cptr", "box_fun_ptr"} => pc = "boxed"
      /\ op \in {"unbox_cptr", "unbox_fun_ptr"} => pc = "done" /\ res = in_x

\* C12 witness: a pointer outside the boxable range came back from its
\* TAG_CPTR_RAW block
C12_Witness ==
  /\ pc = "done" /\ op = "unbox_cptr"
  /\ to_intptr(in_x) > MAX_BOXED_INT
  /\ FreshBlock("TAG_CPTR_RAW", in_x, "free_fun_null")
  /\ res = in_x

\* the number of bit positions in which two words differ
RECURSIVE BitsSet(_)
BitsSet(w) == IF w = 0 THEN 0 ELSE (w % 2) + BitsSet(w \div 2)

BitsDiffer(a, b) == BitsSet(BitXor(a, b))

\* C11: under NaN boxing, unbox_double(box_double(d)) gives the bits of d
\* for every finite d and for both infinities; for every NaN it gives a NaN
\* that differs from d in at most one bit; and boxing the unboxed double
\* again gives the same box word as the first boxing.
C11_NanBoxRoundTrip ==
  op \in {"box_double_nan_box", "unbox_double_nan_box"} =>
    /\ fault = "none"
    /\ pc \in {"boxed", "done", "reboxed"}
    /\ pc = "done" /\ ~isnan(in_x) => res = in_x
    /\ pc = "done" /\ isnan(in_x) => isnan(res) /\ BitsDiffer(res, in_x) <= 1
    /\ pc = "reboxed" => res = box

\* the operations whose fast path returns a SmallInt word it computed
FastOps ==
  {"integer_add", "integer_sub", "integer_mul", "integer_sqr",
   "integer_neg", "integer_abs", "integer_inc", "integer_dec"}

\* the operation returned from its fast path
FastPathTaken == pc = "done" /\ op \in FastOps /\ fault = "none" /\ calls = << >>

\* C21 as stated: every SmallInt word, made by integer_from_small or
\* returned by a successful arithmetic fast path, has bit 0 = 1 and
\* bit 1 = 1 and differs from every immediate of box_bool, box_enum and
\* box_double.
C21_Original ==
  /\ \A w \in {in_x, in_y} : is_value_fast(w) => BitAnd(w, 3) = 3
  /\ FastPathTaken =>
       /\ BitAnd(res, 3) = 3
       /\ \A b \in {0, 1} : res # box_bool(b)
       /\ \A u \in 0 .. MAX_BOXED_UINT : res # box_enum(u)
       /\ \A d \in 0 .. INTPTR_MAX : res # box_double(M0, d).ret

\* C21, amended: every SmallInt word, made by integer_from_small or returned
\* by the fast path of add, sub, mul, sqr, neg, abs, inc or dec, has
\* bit 0 = 1 and bit 1 = 0 (it is 4n+1); bit 1 separates it from the sum of
\* two SmallInt words, not from other immediates: it is the word that
\* box_enum makes of its upper bits, for a non-negative SmallInt also the
\* word box_double makes of them, and integer_zero is box_bool(false).
C21_SmallIntTag ==
  /\ \A w \in {in_x, in_y} : is_value_fast(w) => BitAnd(w, 3) = 1
  /\ box_bool(0) = integer_zero
  /\ FastPathTaken =>
       /\ BitAnd(res, 3) = 1
       /\ IsSmallWord(res)
       /\ shr(res, 1) <= MAX_BOXED_UINT
       /\ res = box_enum(shr(res, 1))
       /\ to_intptr(res) >= 0 => res = box_double(M0, shr(res, 1)).ret

\* C21 witness: the fast path of integer_add returned the SmallInt 1, which
\* is the word of box_enum(2)
C21_Witness ==
  /\ pc = "done" /\ op = "integer_add" /\ calls = << >> /\ fault = "none"
  /\ BothSmall
  /\ res = integer_one
  /\ res = box_enum(2)

\* the number each test looks for
IsOps == {"integer_is_zero", "integer_is_one", "integer_is_minus_one"}

TestedValue == IF op = "integer_is_zero" THEN 0 ELSE IF op = "integer_is_one" THEN 1 ELSE -1

\* heap0 with one reference less to the block at w
DroppedOnce(w) ==
  [heap0 EXCEPT ![w] = IF @.rc = 1 THEN FreeBlock ELSE [@ EXCEPT !.rc = @ - 1]]

\* C22: integer_is_zero, integer_is_one and integer_is_minus_one return true
\* exactly when the operand's value is 0, 1 or -1: on a SmallInt they
\* compare the raw word with the constant and change no reference count; on
\* a BigInt they return false and decrement that block's reference count
\* exactly once.
C22_IsZeroOneMinusOne ==
  (pc = "done" /\ op \in IsOps) =>
    /\ fault = "none"
    /\ calls = << >>
    /\ res = CBool(Value0(in_x) = TestedValue)
    /\ is_smallint(in_x) => res = CBool(in_x = Boxed(TestedValue)) /\ heap = heap0
    /\ is_bigint(in_x) => res = 0 /\ heap = DroppedOnce(in_x)

\* C22 witness: integer_is_zero returned false for a BigInt and released the
\* only reference to it
C22_Witness ==
  /\ pc = "done" /\ op = "integer_is_zero"
  /\ is_bigint(in_x)
  /\ res = 0
  /\ heap0[in_x].rc = 1
  /\ heap[in_x] = FreeBlock

\* the block of acc.res was shared before the call
SharedContext == in_x.hole # NULL /\ heap0[in_x.res].rc > 1

====
